---- MODULE Spec2Model ----
(***************************************************************************)
(* Model of the JDBC class of jt-400jdbc (lib/jdbc.js): the pool manager   *)
(* (connect / close) and the four execution modes, each a promise executor *)
(* that runs its driver calls synchronously on the JavaScript main thread. *)
(* pool.close(cb) is the only asynchronous driver call: it runs on a Java  *)
(* worker and its callback is delivered later on the main thread.          *)
(***************************************************************************)
EXTENDS Integers, Sequences, FiniteSets, TLC

VARIABLES connected, poolDataSource, pool, poolOpen, initialPoolCount,
          built, teardowns, poolClose, leased, op, prevOp, nOps

vars == <<connected, poolDataSource, pool, poolOpen, initialPoolCount,
          built, teardowns, poolClose, leased, op, prevOp, nOps>>

\* ---------------------------------------------------------------- bounds
MaxOps == 3
MaxPoolCount == 2

\* ------------------------------------------------------------- constants
OUTPUT_PARAM == "out"
INPUT_PARAM == "in"

ExecModes == {"executeQuery", "executeStatement",
              "executeStatementInTransaction", "executeStoredProcedure"}

\* ------------------------------------------------------------ utilities
\* Utils.convertNulls: the empty sentinel becomes null, the rest is kept.
convertNulls(v) == IF v = "" THEN "null" ELSE v

\* Utils.trimValue on the strings of the model: "a " is "a" with padding.
trimValue(v) == IF v = "a " THEN "a" ELSE v

\* ------------------------------------------------------------- promises
NoValue == [kind |-> "none", rows |-> <<>>, keys |-> {}, hasSets |-> FALSE, sets |-> <<>>]
TrueValue == [NoValue EXCEPT !.kind = "true"]
RowsValue(rows) == [NoValue EXCEPT !.kind = "rows", !.rows = rows]
ObjValue(keys, hasSets, sets) ==
  [NoValue EXCEPT !.kind = "obj", !.keys = keys, !.hasSets = hasSets, !.sets = sets]

Pending == [state |-> "pending", value |-> NoValue, err |-> ""]

\* resolve / reject of a promise: only the first settlement counts.
Settle(p, st, v, e) ==
  IF p.state = "pending" THEN [state |-> st, value |-> v, err |-> e] ELSE p

Resolve(p, v) == Settle(p, "resolved", v, "")
Reject(p, e) == Settle(p, "rejected", NoValue, e)

\* ------------------------------------------------------------- call log
L(call, pos, arg, ok) == [call |-> call, pos |-> pos, arg |-> arg, ok |-> ok]

RECURSIVE CountCalls(_, _)
CountCalls(log, call) ==
  IF log = <<>> THEN 0
  ELSE (IF Head(log).call = call THEN 1 ELSE 0) + CountCalls(Tail(log), call)

\* ---------------------------------------------------------------- inputs
ScalarParamLists ==
  { <<>>, <<[type |-> INPUT_PARAM, value |-> "", fieldName |-> "", dataType |-> ""]>>,
    <<[type |-> INPUT_PARAM, value |-> "x", fieldName |-> "", dataType |-> ""],
      [type |-> INPUT_PARAM, value |-> "", fieldName |-> "", dataType |-> ""]>> }

SPParamLists ==
  { <<>>,
    <<[type |-> INPUT_PARAM, value |-> "", fieldName |-> "", dataType |-> ""],
      [type |-> OUTPUT_PARAM, value |-> "", fieldName |-> "f1", dataType |-> "CHAR"]>>,
    <<[type |-> OUTPUT_PARAM, value |-> "", fieldName |-> "f1", dataType |-> "CHAR"],
      [type |-> OUTPUT_PARAM, value |-> "", fieldName |-> "f2", dataType |-> "INTEGER"]>> }

\* a cursor is the sequence of the source rows it yields
Cursors == { <<>>, <<"a ">>, <<"b", "a ">> }
CursorLists == { <<>>, << <<"a ">> >>, << <<"b", "a ">>, <<>> >> }

ParamListsOf(mode) == IF mode = "executeStoredProcedure" THEN SPParamLists ELSE ScalarParamLists
CursorListsOf(mode) ==
  IF mode = "executeStoredProcedure" THEN CursorLists
  ELSE IF mode = "executeQuery" THEN { <<c>> : c \in Cursors }
  ELSE { <<>> }

\* ------------------------------------------------------------ operations
Idle == [mode |-> "none", pc |-> "idle", params |-> <<>>, cursors |-> <<>>, i |-> 0,
         connection |-> FALSE, statement |-> FALSE, promise |-> Pending,
         argument |-> "none", receiver |-> "null",
         caught |-> "", uncaught |-> "", resultObj |-> NoValue, log |-> <<>>]

MainFree == op.pc \in {"idle", "done"}

Summary(o) == [mode |-> o.mode, state |-> o.promise.state]

Init ==
  /\ connected = FALSE
  /\ poolDataSource = 0
  /\ pool = 0
  /\ poolOpen = FALSE
  /\ initialPoolCount \in 1..MaxPoolCount
  /\ built = [ds |-> 0, libs |-> 0, pool |-> 0, fill |-> 0, connects |-> 0]
  /\ teardowns = 0
  /\ poolClose = [running |-> 0, ok |-> 0, err |-> 0]
  /\ leased = 0
  /\ op = Idle
  /\ prevOp = Summary(Idle)
  /\ nOps = 0

\* ---------------------------------------------------------- pool manager
ConnectSteps == <<"newDataSource", "setLibraries", "newPool", "fill">>

StepIndex(step) == CHOOSE k \in 1..Len(ConnectSteps) : ConnectSteps[k] = step

\* how many of the construction calls of the try block are invoked
Invoked(failAt) == IF failAt = "none" THEN Len(ConnectSteps) ELSE StepIndex(failAt)

ConnectCalls(failAt, count) ==
  [k \in 1..Invoked(failAt) |->
     L(ConnectSteps[k], IF ConnectSteps[k] = "fill" THEN count ELSE 0, "",
       ConnectSteps[k] # failAt)]

\* a call took effect when it was invoked and did not throw
Done(failAt, step) == failAt = "none" \/ StepIndex(step) < StepIndex(failAt)

\* the guard of connect(): already connected, skip the construction
connectSkips_never(c) == FALSE
connectSkips(c) == c

\* the connected flag after the try / catch of connect()
connectFlag_optimistic(failAt) == TRUE
connectFlag(failAt) == failAt = "none"

connect ==
  /\ MainFree /\ nOps < MaxOps
  /\ nOps' = nOps + 1
  /\ prevOp' = Summary(op)
  /\ UNCHANGED <<initialPoolCount, teardowns, poolClose, leased>>
  /\ IF connectSkips(connected)
     THEN /\ op' = [Idle EXCEPT !.mode = "connect", !.pc = "done",
                                !.promise = Resolve(Pending, TrueValue)]
          /\ UNCHANGED <<connected, poolDataSource, pool, poolOpen, built>>
     ELSE \E failAt \in {"none", "newDataSource", "setLibraries", "newPool", "fill"} :
          /\ built' = [ds   |-> built.ds + 1,
                       libs |-> built.libs + (IF Invoked(failAt) >= 2 THEN 1 ELSE 0),
                       pool |-> built.pool + (IF Invoked(failAt) >= 3 THEN 1 ELSE 0),
                       fill |-> built.fill + (IF Invoked(failAt) >= 4 THEN 1 ELSE 0),
                       connects |-> built.connects + (IF failAt = "none" THEN 1 ELSE 0)]
          /\ poolDataSource' = IF Done(failAt, "newDataSource") THEN built.ds + 1
                               ELSE poolDataSource
          /\ pool' = IF Done(failAt, "newPool") THEN built.pool + 1 ELSE pool
          /\ poolOpen' = IF Done(failAt, "newPool") THEN TRUE ELSE poolOpen
          /\ connected' = connectFlag(failAt)
          /\ op' = [Idle EXCEPT !.mode = "connect", !.pc = "done",
                      !.log = ConnectCalls(failAt, initialPoolCount),
                      !.caught = IF failAt = "none" THEN "" ELSE failAt,
                      !.promise = IF failAt = "none" THEN Resolve(Pending, TrueValue)
                                  ELSE Reject(Pending, failAt)]

\* the guard of close(): not connected, skip the teardown
closeSkips_never(c) == FALSE
closeSkips(c) == ~c

\* the connected flag after close() has invoked pool.close
closeFlag(c) == c

close ==
  /\ MainFree /\ nOps < MaxOps
  /\ nOps' = nOps + 1
  /\ prevOp' = Summary(op)
  /\ UNCHANGED <<poolDataSource, pool, poolOpen, initialPoolCount, built, leased>>
  /\ IF closeSkips(connected)
     THEN /\ op' = [Idle EXCEPT !.mode = "close", !.pc = "done",
                                !.promise = Resolve(Pending, TrueValue)]
          /\ UNCHANGED <<connected, teardowns, poolClose>>
     ELSE IF pool = 0
     THEN /\ op' = [Idle EXCEPT !.mode = "close", !.pc = "done",
                                !.uncaught = "TypeError",
                                !.promise = Reject(Pending, "TypeError")]
          /\ UNCHANGED <<connected, teardowns, poolClose>>
     ELSE /\ op' = [Idle EXCEPT !.mode = "close", !.pc = "done",
                                !.log = <<L("pool.close", 0, "", TRUE)>>]
          /\ teardowns' = teardowns + 1
          /\ poolClose' = [poolClose EXCEPT !.running = @ + 1]
          /\ connected' = closeFlag(connected)

\* the Java worker runs AS400JDBCConnectionPool.close() for one pending call
poolCloseWorker ==
  /\ poolClose.running > 0
  /\ \E ok \in BOOLEAN :
       /\ poolClose' = [poolClose EXCEPT !.running = @ - 1,
                                         !.ok = @ + (IF ok THEN 1 ELSE 0),
                                         !.err = @ + (IF ok THEN 0 ELSE 1)]
       /\ poolOpen' = IF ok THEN FALSE ELSE poolOpen
  /\ UNCHANGED <<connected, poolDataSource, pool, initialPoolCount, built,
                 teardowns, leased, op, prevOp, nOps>>

\* the callback handed to pool.close, delivered on the main thread
closeCallback ==
  /\ MainFree
  /\ \E err \in BOOLEAN :
       /\ IF err THEN poolClose.err > 0 ELSE poolClose.ok > 0
       /\ poolClose' = IF err THEN [poolClose EXCEPT !.err = @ - 1]
                       ELSE [poolClose EXCEPT !.ok = @ - 1]
       /\ op' = [Idle EXCEPT !.mode = "close.callback", !.pc = "done",
                   !.promise = IF err THEN Reject(Pending, "pool.close")
                               ELSE Resolve(Pending, TrueValue)]
  /\ prevOp' = Summary(op)
  /\ UNCHANGED <<connected, poolDataSource, pool, poolOpen, initialPoolCount,
                 built, teardowns, leased, nOps>>

\* ------------------------------------------------------ statement executor
Running(mode, pc) == op.mode = mode /\ op.pc = pc
RunningAny(pc) == op.mode \in ExecModes /\ op.pc = pc

PoolUnchanged == UNCHANGED <<connected, poolDataSource, pool, poolOpen, initialPoolCount,
                             built, teardowns, poolClose, prevOp, nOps>>

\* a driver call inside the try block: logged, and a throw goes to the catch
Called(o, call, pos, arg, ok) ==
  IF ok THEN [o EXCEPT !.log = Append(@, L(call, pos, arg, TRUE))]
  ELSE [o EXCEPT !.log = Append(@, L(call, pos, arg, FALSE)),
                 !.caught = call, !.pc = "catch"]

\* the connection argument a caller may hand to a mode: only
\* executeStatementInTransaction has such a parameter
ConnectionArgsOf(mode) ==
  IF mode = "executeStatementInTransaction" THEN {"none", "callerConnection"}
  ELSE {"none"}

\* the caller invokes one of the four execution modes
start ==
  /\ MainFree /\ nOps < MaxOps
  /\ \E mode \in ExecModes :
     \E params \in ParamListsOf(mode) :
     \E cursors \in CursorListsOf(mode) :
     \E argument \in ConnectionArgsOf(mode) :
       op' = [Idle EXCEPT !.mode = mode, !.pc = "getConnection",
                          !.params = params, !.cursors = cursors,
                          !.argument = argument]
  /\ nOps' = nOps + 1
  /\ prevOp' = Summary(op)
  /\ UNCHANGED <<connected, poolDataSource, pool, poolOpen, initialPoolCount,
                 built, teardowns, poolClose, leased>>

\* the object the executor's local variable connection refers to once the
\* pool has handed one out: the local declaration shadows the parameter
localConnection_prefersArgument(argument, acquired) ==
  IF argument # "none" THEN argument ELSE acquired

localConnection(argument, acquired) == acquired

\* connection = this.pool.getConnectionSync()
getConnection ==
  /\ RunningAny("getConnection")
  /\ IF pool = 0
     THEN /\ op' = [op EXCEPT !.caught = "TypeError", !.pc = "catch"]
          /\ UNCHANGED leased
     ELSE \E ok \in BOOLEAN :
          /\ op' = [Called(op, "getConnection", 0, "", ok) EXCEPT
                      !.connection = ok,
                      !.receiver = IF ok THEN localConnection(op.argument, "pooled")
                                   ELSE "null",
                      !.pc = IF ok THEN "setAutoCommit" ELSE "catch"]
          /\ leased' = IF ok THEN leased + 1 ELSE leased
  /\ PoolUnchanged

\* the auto-commit flag each mode asks for
autoCommit_alwaysTrue(mode) == "true"

autoCommit(mode) == IF mode = "executeStatementInTransaction" THEN "false" ELSE "true"

setAutoCommit ==
  /\ RunningAny("setAutoCommit")
  /\ \E ok \in BOOLEAN :
       op' = [Called(op, "setAutoCommit", 0, autoCommit(op.mode), ok) EXCEPT
                !.pc = IF ok THEN "prepare" ELSE "catch"]
  /\ UNCHANGED leased /\ PoolUnchanged

prepareCall(mode) ==
  IF mode = "executeStoredProcedure" THEN "prepareCall" ELSE "prepareStatement"

prepare ==
  /\ RunningAny("prepare")
  /\ \E ok \in BOOLEAN :
       op' = [Called(op, prepareCall(op.mode), 0, "", ok) EXCEPT
                !.statement = ok, !.i = 0,
                !.pc = IF ok THEN "bind" ELSE "catch"]
  /\ UNCHANGED leased /\ PoolUnchanged

\* the driver call that binds the parameter at list index i (0-based)
bindCall_zeroBased(mode, param, i, ok) ==
  IF mode = "executeStoredProcedure" /\ param.type = OUTPUT_PARAM
  THEN L("registerOutParameter", i, param.dataType, ok)
  ELSE L("setObject", i, convertNulls(param.value), ok)

bindCall(mode, param, i, ok) ==
  IF mode = "executeStoredProcedure" /\ param.type = OUTPUT_PARAM
  THEN L("registerOutParameter", i + 1, param.dataType, ok)
  ELSE L("setObject", i + 1, convertNulls(param.value), ok)

\* one turn of the binding loop, or its exit
bind ==
  /\ RunningAny("bind")
  /\ IF op.i < Len(op.params)
     THEN \E ok \in BOOLEAN :
          LET c == bindCall(op.mode, op.params[op.i + 1], op.i, ok)
          IN op' = [Called(op, c.call, c.pos, c.arg, ok) EXCEPT
                      !.i = IF ok THEN op.i + 1 ELSE op.i]
     ELSE op' = [op EXCEPT !.pc = "execute"]
  /\ UNCHANGED leased /\ PoolUnchanged

executeCall(mode) ==
  CASE mode = "executeQuery" -> "executeQuery"
    [] mode = "executeStoredProcedure" -> "execute"
    [] OTHER -> "executeUpdate"

afterExecute(mode) ==
  CASE mode = "executeQuery" -> "getResults"
    [] mode = "executeStatement" -> "finally"
    [] mode = "executeStatementInTransaction" -> "commit"
    [] mode = "executeStoredProcedure" -> "getOutputs"

execute ==
  /\ RunningAny("execute")
  /\ \E ok \in BOOLEAN :
       LET o == Called(op, executeCall(op.mode), 0, "", ok)
       IN op' = IF ~ok THEN o
                ELSE [o EXCEPT !.pc = afterExecute(op.mode),
                               !.promise = IF op.mode = "executeStatement"
                                           THEN Resolve(@, TrueValue) ELSE @]
  /\ UNCHANGED leased /\ PoolUnchanged

\* connection.commitSync(); resolve(true)
commit_resolvesFirst ==
  /\ Running("executeStatementInTransaction", "commit")
  /\ \E ok \in BOOLEAN :
       LET o == Called([op EXCEPT !.promise = Resolve(@, TrueValue)], "commit", 0, "", ok)
       IN op' = IF ~ok THEN o ELSE [o EXCEPT !.pc = "finally"]
  /\ UNCHANGED leased /\ PoolUnchanged

commit ==
  /\ Running("executeStatementInTransaction", "commit")
  /\ \E ok \in BOOLEAN :
       LET o == Called(op, "commit", 0, "", ok)
       IN op' = IF ~ok THEN o
                ELSE [o EXCEPT !.pc = "finally", !.promise = Resolve(@, TrueValue)]
  /\ UNCHANGED leased /\ PoolUnchanged

\* the while (next) loop of getResults: nexts counts the rs.nextSync() calls
\* made so far, the last of which answered whether row number nexts exists
RECURSIVE getResultsLoop(_, _, _, _)
getResultsLoop(cursor, results, currentIndex, nexts) ==
  IF nexts <= Len(cursor)
  THEN getResultsLoop(cursor,
                      Append(results, [value |-> trimValue(cursor[nexts]),
                                       index |-> currentIndex]),
                      currentIndex + 1, nexts + 1)
  ELSE [results |-> results, nexts |-> nexts]

\* getResults(rs): one row per source row, trimmed, with its zero-based index
getResults_oneBased(cursor) == getResultsLoop(cursor, <<>>, 1, 1).results

getResults(cursor) == getResultsLoop(cursor, <<>>, 0, 1).results

\* the rs.nextSync() calls of one getResults(rs), each with its answer
nextCalls(cursor) ==
  [k \in 1..getResultsLoop(cursor, <<>>, 0, 1).nexts |->
     L("next", k, IF k <= Len(cursor) THEN "true" ELSE "false", TRUE)]

\* resolve(getResults(rs)) of executeQuery
queryResults ==
  /\ Running("executeQuery", "getResults")
  /\ \E ok \in BOOLEAN :
       LET o == Called(op, "getResults", 0, "", ok)
       IN op' = IF ~ok THEN o
                ELSE [o EXCEPT !.pc = "finally",
                               !.log = @ \o nextCalls(op.cursors[1]),
                               !.promise = Resolve(@, RowsValue(getResults(op.cursors[1])))]
  /\ UNCHANGED leased /\ PoolUnchanged

\* resultObj = {} and the read-back of the output parameters
getOutputs ==
  /\ Running("executeStoredProcedure", "getOutputs")
  /\ \E ok \in BOOLEAN :
       LET outs == { k \in 1..Len(op.params) : op.params[k].type = OUTPUT_PARAM }
           keys == { op.params[k].fieldName : k \in outs }
       IN IF outs = {}
          THEN op' = [op EXCEPT !.pc = "getResultSet",
                                !.resultObj = ObjValue({}, FALSE, <<>>)]
          ELSE IF ok
          THEN op' = [op EXCEPT !.pc = "getResultSet",
                        !.resultObj = ObjValue(keys, FALSE, <<>>),
                        !.log = @ \o [j \in 1..Cardinality(outs) |->
                                  L("getObject",
                                    CHOOSE k \in outs :
                                      Cardinality({m \in outs : m < k}) = j - 1,
                                    "", TRUE)]]
          ELSE op' = Called(op, "getObject", CHOOSE k \in outs : \A m \in outs : k <= m,
                            "", FALSE)
  /\ UNCHANGED leased /\ PoolUnchanged

\* let rs = statement.getResultSetSync(); hasMoreResults; resultSets = []
getResultSet ==
  /\ Running("executeStoredProcedure", "getResultSet")
  /\ \E ok \in BOOLEAN :
       LET o == Called(op, "getResultSet", 0, "", ok)
           hasMoreResults == Len(op.cursors) > 0
       IN op' = IF ~ok THEN o
                ELSE IF hasMoreResults
                THEN [o EXCEPT !.pc = "drain", !.i = 1, !.resultObj.hasSets = TRUE]
                ELSE [o EXCEPT !.pc = "finally",
                               !.promise = Resolve(@, op.resultObj)]
  /\ UNCHANGED leased /\ PoolUnchanged

\* one turn of the while (hasMoreResults) loop, and resolve(resultObj) at its exit
drain_stopsAfterFirst ==
  /\ Running("executeStoredProcedure", "drain")
  /\ \E failAt \in {"none", "getResults", "getMoreResults"} :
       LET o1 == Called(op, "getResults", op.i, "", failAt # "getResults")
           o2 == [o1 EXCEPT !.resultObj.sets = Append(@, getResults(op.cursors[op.i]))]
           o3 == Called(o2, "getMoreResults", 0, "", failAt # "getMoreResults")
       IN op' = CASE failAt = "getResults" -> o1
                  [] failAt = "getMoreResults" -> o3
                  [] OTHER -> [o3 EXCEPT !.pc = "finally",
                                         !.promise = Resolve(@, o3.resultObj)]
  /\ UNCHANGED leased /\ PoolUnchanged

drain ==
  /\ Running("executeStoredProcedure", "drain")
  /\ \E failAt \in {"none", "getResults", "getMoreResults", "getResultSet"} :
       LET hasMoreResults == op.i < Len(op.cursors)
           o1 == Called(op, "getResults", op.i, "", failAt # "getResults")
           o2 == [o1 EXCEPT !.resultObj.sets = Append(@, getResults(op.cursors[op.i])),
                            !.log = @ \o nextCalls(op.cursors[op.i])]
           o3 == Called(o2, "getMoreResults", 0, "", failAt # "getMoreResults")
           o4 == Called(o3, "getResultSet", 0, "", failAt # "getResultSet")
       IN /\ failAt = "getResultSet" => hasMoreResults
          /\ op' = CASE failAt = "getResults" -> o1
                     [] failAt = "getMoreResults" -> o3
                     [] failAt = "getResultSet" -> o4
                     [] OTHER -> IF hasMoreResults THEN [o4 EXCEPT !.i = op.i + 1]
                                 ELSE [o3 EXCEPT !.pc = "finally",
                                          !.promise = Resolve(@, o3.resultObj)]
  /\ UNCHANGED leased /\ PoolUnchanged

\* catch (ex) of executeQuery, executeStatement and executeStoredProcedure
catch_swallows ==
  /\ op.mode \in ExecModes \ {"executeStatementInTransaction"}
  /\ op.pc = "catch"
  /\ op' = [op EXCEPT !.pc = "finally"]
  /\ UNCHANGED leased /\ PoolUnchanged

catch ==
  /\ op.mode \in ExecModes \ {"executeStatementInTransaction"}
  /\ op.pc = "catch"
  /\ op' = [op EXCEPT !.pc = "finally", !.promise = Reject(@, op.caught)]
  /\ UNCHANGED leased /\ PoolUnchanged

\* catch (ex) of executeStatementInTransaction: rollback, then reject(ex)
catchTransaction_noRollback ==
  /\ Running("executeStatementInTransaction", "catch")
  /\ op' = [op EXCEPT !.pc = "finally", !.promise = Reject(@, op.caught)]
  /\ UNCHANGED leased /\ PoolUnchanged

catchTransaction ==
  /\ Running("executeStatementInTransaction", "catch")
  /\ IF ~op.connection
     THEN op' = [op EXCEPT !.pc = "finally", !.uncaught = "TypeError.rollbackSync"]
     ELSE \E ok \in BOOLEAN :
          op' = [op EXCEPT !.pc = "finally",
                   !.log = Append(@, L("rollback", 0, "", ok)),
                   !.uncaught = IF ok THEN "" ELSE "rollback",
                   !.promise = IF ok THEN Reject(@, op.caught) ELSE @]
  /\ UNCHANGED leased /\ PoolUnchanged

\* the closes of the finally block, inside its single try
finallyCalls(statement, connection, sOk, cOk) ==
  (IF statement THEN <<L("statement.close", 0, "", sOk)>> ELSE <<>>)
  \o (IF connection /\ (statement => sOk)
      THEN <<L("connection.close", 0, "", cOk)>> ELSE <<>>)

\* the exception that leaves the finally block: its catch (e) keeps the close
\* failure, so it is the one that was already on its way, if any
afterFinally_unwrapped(uncaught, closeError) ==
  IF closeError # "" THEN closeError ELSE uncaught

afterFinally(uncaught, closeError) == uncaught

finally ==
  /\ RunningAny("finally")
  /\ \E sOk \in BOOLEAN, cOk \in BOOLEAN :
       LET calls == finallyCalls(op.statement, op.connection, sOk, cOk)
           failed == { k \in 1..Len(calls) : ~calls[k].ok }
           closeError == IF failed = {} THEN ""
                         ELSE calls[CHOOSE k \in failed : TRUE].call
           thrown == afterFinally(op.uncaught, closeError)
           \* leased counts the connections this layer still holds: acquired
           \* and not yet handed to connection.closeSync()
           returned == \E k \in 1..Len(calls) : calls[k].call = "connection.close"
       IN /\ op' = [op EXCEPT !.pc = "done", !.log = @ \o calls,
                      !.uncaught = thrown,
                      !.promise = IF thrown # "" THEN Reject(@, thrown) ELSE @]
          /\ leased' = IF returned THEN leased - 1 ELSE leased
  /\ PoolUnchanged

Next ==
  \/ connect
  \/ close
  \/ poolCloseWorker
  \/ closeCallback
  \/ start
  \/ getConnection
  \/ setAutoCommit
  \/ prepare
  \/ bind
  \/ execute
  \/ commit
  \/ queryResults
  \/ getOutputs
  \/ getResultSet
  \/ drain
  \/ catch
  \/ catchTransaction
  \/ finally

Spec == Init /\ [][Next]_vars

\* ================================================================ claims
Tx == "executeStatementInTransaction"
Finished == op.mode \in ExecModes /\ op.pc = "done"
Threw(call) == \E k \in 1..Len(op.log) : op.log[k].call = call /\ ~op.log[k].ok
ExecuteInvoked == CountCalls(op.log, executeCall(op.mode)) = 1
CloseFailed == Threw("statement.close") \/ Threw("connection.close")

\* C1: once the connection is acquired and the statement prepared, whether
\* execute succeeds or throws, statement.close and connection.close have each
\* been invoked exactly once when the operation is over.
C1_ClosedOnceEach ==
  (Finished /\ op.connection /\ op.statement /\ ExecuteInvoked)
    => /\ CountCalls(op.log, "statement.close") = 1
       /\ CountCalls(op.log, "connection.close") = 1

\* C2: the connection an operation acquired is closed by the end of that
\* operation on every path, a failing statement close included.
C2_ConnectionAlwaysClosed ==
  (Finished /\ op.connection) => CountCalls(op.log, "connection.close") = 1

\* C3: on the transactional path, when execute fails after a successful
\* prepare, commit is never invoked, rollback is invoked exactly once, and the
\* promise is not rejected before the rollback; the operation ends rejected.
C3_RollbackOnceNoCommit ==
  (op.mode = Tx /\ Threw("executeUpdate"))
    => /\ CountCalls(op.log, "commit") = 0
       /\ CountCalls(op.log, "rollback") <= 1
       /\ op.promise.state # "resolved"
       /\ op.promise.state = "rejected" => CountCalls(op.log, "rollback") = 1
       /\ op.pc = "done" => /\ op.promise.state = "rejected"
                            /\ CountCalls(op.log, "rollback") = 1

C3_Witness ==
  /\ Finished /\ op.mode = Tx /\ op.statement /\ Threw("executeUpdate")
  /\ CountCalls(op.log, "rollback") = 1
  /\ op.promise.state = "rejected"

\* C4: on the transactional path, when execute fails and the rollback fails
\* too, the promise is rejected with the execution failure, not the rollback's.
C4_OriginalErrorSurvives ==
  (Finished /\ op.mode = Tx /\ Threw("executeUpdate") /\ Threw("rollback"))
    => op.promise.state = "rejected" /\ op.promise.err = "executeUpdate"

\* C5: a failure of a close in the cleanup phase never changes the outcome
\* the operation had before the cleanup: what was resolved stays resolved with
\* the same value, what was rejected (or on its way to the caller as a thrown
\* error) stays rejected with the same error.
C5_CleanupKeepsOutcome ==
  [][(op.mode \in ExecModes /\ op.pc = "finally" /\ op'.pc = "done")
       => op'.promise = IF op.promise.state = "pending"
                        THEN Reject(Pending, op.uncaught) ELSE op.promise]_vars

C5_Witness ==
  /\ Finished /\ CloseFailed /\ op.promise.state = "resolved"

\* C6: after a close() that succeeds on a connected pool the connected flag
\* is false.
C6_ClosedMeansDisconnected ==
  (op.mode = "close.callback" /\ op.promise.state = "resolved") => ~connected

\* C7: a connect() that follows a successful close() constructs the data
\* source and the pool again and fills it, instead of returning early.
C7_ReconnectRebuilds ==
  (op.mode = "connect" /\ op.promise.state = "resolved"
     /\ prevOp.mode = "close.callback" /\ prevOp.state = "resolved")
    => /\ CountCalls(op.log, "newDataSource") = 1
       /\ CountCalls(op.log, "newPool") = 1
       /\ CountCalls(op.log, "fill") = 1

\* C8: a connect() that directly follows a connect() that resolved constructs
\* nothing (data source, pool and fill counts are unchanged) and resolves true.
C8_ConnectTwiceBuildsOnce ==
  [][(nOps' = nOps + 1 /\ op'.mode = "connect"
        /\ op.mode = "connect" /\ op.promise.state = "resolved")
       => /\ built' = built /\ pool' = pool /\ poolDataSource' = poolDataSource
          /\ op'.log = <<>>
          /\ op'.promise = Resolve(Pending, TrueValue)]_vars

C8_Witness ==
  /\ op.mode = "connect" /\ op.promise.state = "resolved" /\ op.log = <<>>
  /\ prevOp = [mode |-> "connect", state |-> "resolved"]
  /\ built.ds = 1 /\ built.pool = 1 /\ built.fill = 1

\* C9: close() on a pool manager no connect of which ever succeeded resolves
\* with true and does not invoke the pool's teardown.
C9_CloseWhenNeverConnected ==
  [][(nOps' = nOps + 1 /\ op'.mode = "close" /\ built.connects = 0)
       => /\ op'.promise = Resolve(Pending, TrueValue)
          /\ op'.log = <<>>
          /\ teardowns' = teardowns /\ poolClose' = poolClose]_vars

C9_Witness ==
  /\ op.mode = "close" /\ op.promise.state = "resolved"
  /\ prevOp = [mode |-> "connect", state |-> "rejected"]
  /\ built.connects = 0 /\ teardowns = 0

\* C10: a connect() one of whose construction steps failed is rejected with
\* that failure and leaves connected false; connected is true only when a
\* connect has got past a successful fill.
C10_FailedConnectStaysDisconnected ==
  /\ \A k \in 1..Len(op.log) :
       (op.mode = "connect" /\ ~op.log[k].ok)
          => /\ op.promise = Reject(Pending, op.log[k].call)
             /\ ~connected
  /\ connected => built.connects >= 1 /\ built.fill >= 1

C10_Witness ==
  /\ op.mode = "connect" /\ Threw("fill") /\ op.promise.state = "rejected"
  /\ pool # 0 /\ ~connected
SP == "executeStoredProcedure"

\* C11: executeStoredProcedure resolves with an object whose keys are exactly
\* the field names of the Output parameters, with resultSets present if and
\* only if the call produced at least one cursor; resultSets then holds one
\* normalized row sequence per cursor, in the driver's order, and
\* getMoreResults is asked once per cursor (the last answer ends the loop).
C11_ProcedureResultShape ==
  (Finished /\ op.mode = SP /\ op.promise.state = "resolved")
    => LET v == op.promise.value
           n == Len(op.cursors)
       IN /\ v.kind = "obj"
          /\ v.keys = { op.params[k].fieldName :
                          k \in { j \in 1..Len(op.params) : op.params[j].type = "out" } }
          /\ v.hasSets = (n >= 1)
          /\ Len(v.sets) = n
          /\ \A k \in 1..n :
               /\ Len(v.sets[k]) = Len(op.cursors[k])
               /\ \A j \in 1..Len(op.cursors[k]) :
                    /\ v.sets[k][j].value = trimValue(op.cursors[k][j])
                    /\ v.sets[k][j].index = j - 1
          /\ CountCalls(op.log, "getMoreResults") = n

C11_Witness ==
  /\ Finished /\ op.mode = SP /\ op.promise.state = "resolved"
  /\ Len(op.cursors) = 2 /\ Len(op.promise.value.sets) = 2
  /\ Cardinality(op.promise.value.keys) = 2
\* C12: for a cursor yielding rows r0..rn, executeQuery resolves with exactly
\* those rows in source order, row i carrying index i (no rows: the empty
\* sequence), and rs.next is called once per row plus once more, the last
\* call being the only one that answers false.
C12_RowsInOrderWithIndex ==
  (Finished /\ op.mode = "executeQuery" /\ op.promise.state = "resolved")
    => LET rows == op.promise.value.rows
           cursor == op.cursors[1]
           nexts == { k \in 1..Len(op.log) : op.log[k].call = "next" }
       IN /\ op.promise.value.kind = "rows"
          /\ Len(rows) = Len(cursor)
          /\ \A i \in 1..Len(cursor) :
               rows[i].index = i - 1 /\ rows[i].value = trimValue(cursor[i])
          /\ Cardinality(nexts) = Len(cursor) + 1
          /\ \A k \in nexts : (op.log[k].arg = "false") <=> (op.log[k].pos = Len(cursor) + 1)

C12_Witness ==
  /\ Finished /\ op.mode = "executeQuery" /\ op.promise.state = "resolved"
  /\ op.cursors[1] = <<"b", "a ">>
  /\ Len(op.promise.value.rows) = 2
  /\ op.promise.value.rows[2].index = 1
BindCalls == {"setObject", "registerOutParameter"}
PrepareCalls == {"prepareStatement", "prepareCall"}
ExecuteCalls == {"executeQuery", "executeUpdate", "execute"}

\* C13: every binding call sits in the log right after the prepare, the call
\* for list index k (0-based) at driver position k+1 and in increasing order;
\* an Output parameter of a stored procedure is registered with its dataType,
\* any other parameter has its null-coerced value set; when execute is
\* invoked all N positions have been bound, each once.
C13_PositionalBinding ==
  op.mode \in ExecModes
    => /\ \A k \in 1..Len(op.log) :
            op.log[k].call \in BindCalls
              => LET pos == op.log[k].pos
                 IN /\ pos \in 1..Len(op.params)
                    /\ k = 3 + pos
                    /\ op.log[3].call \in PrepareCalls /\ op.log[3].ok
                    /\ IF op.mode = SP /\ op.params[pos].type = "out"
                       THEN /\ op.log[k].call = "registerOutParameter"
                            /\ op.log[k].arg = op.params[pos].dataType
                       ELSE /\ op.log[k].call = "setObject"
                            /\ op.log[k].arg = (IF op.params[pos].value = ""
                                                THEN "null" ELSE op.params[pos].value)
       /\ \A e \in 1..Len(op.log) :
            op.log[e].call \in ExecuteCalls
              => /\ e = 3 + Len(op.params) + 1
                 /\ \A k \in 4..(e - 1) : op.log[k].call \in BindCalls /\ op.log[k].ok

C13_Witness ==
  /\ Finished /\ op.mode = SP /\ ExecuteInvoked
  /\ Len(op.params) = 2
  /\ op.log[4].call = "setObject" /\ op.log[4].arg = "null" /\ op.log[4].pos = 1
  /\ op.log[5].call = "registerOutParameter" /\ op.log[5].pos = 2
\* C14: an operation that failed at a step of its try block is rejected, and
\* releases exactly what it had acquired: statement.close is invoked if and
\* only if the statement was created, connection.close if and only if the
\* connection was acquired, and the statement close comes first.
C14_ReleasesExactlyWhatWasAcquired ==
  (Finished /\ op.caught # "")
    => /\ op.promise.state = "rejected"
       /\ CountCalls(op.log, "statement.close") = (IF op.statement THEN 1 ELSE 0)
       /\ CountCalls(op.log, "connection.close") = (IF op.connection THEN 1 ELSE 0)
       /\ \A i \in 1..Len(op.log), j \in 1..Len(op.log) :
            (op.log[i].call = "statement.close" /\ op.log[j].call = "connection.close")
              => i < j
\* C15: on the transactional path, when the connection could not be acquired
\* (the pool threw, or there is no pool), the promise is rejected with that
\* acquisition failure and no rollback is attempted.
C15_AcquireFailureSurfaces ==
  (Finished /\ op.mode = Tx /\ ~op.connection)
    => /\ op.promise.state = "rejected"
       /\ op.promise.err = op.caught
       /\ op.uncaught = ""
       /\ CountCalls(op.log, "rollback") = 0
\* C16: a transactional update is resolved (with true) only after execute
\* succeeded and commit was then invoked once and succeeded, and without any
\* rollback; when the commit throws, the operation is never resolved, and it
\* ends rejected with exactly one rollback invoked.
C16_ResolveOnlyAfterCommit ==
  op.mode = Tx
    => /\ op.promise.state = "resolved"
            => /\ op.promise.value = TrueValue
               /\ CountCalls(op.log, "commit") = 1
               /\ CountCalls(op.log, "rollback") = 0
               /\ \E e \in 1..Len(op.log), c \in 1..Len(op.log) :
                    /\ e < c
                    /\ op.log[e].call = "executeUpdate" /\ op.log[e].ok
                    /\ op.log[c].call = "commit" /\ op.log[c].ok
       /\ Threw("commit")
            => /\ op.promise.state # "resolved"
               /\ CountCalls(op.log, "rollback") <= 1
               /\ op.pc = "done" => /\ op.promise.state = "rejected"
                                    /\ CountCalls(op.log, "rollback") = 1

C16_Witness ==
  /\ Finished /\ op.mode = Tx /\ op.promise.state = "resolved"
  /\ CountCalls(op.log, "commit") = 1 /\ CountCalls(op.log, "rollback") = 0
\* C17: the auto-commit flag is set at most once per operation, right after
\* the connection is acquired and right before the statement is prepared,
\* exactly once when a connection was acquired; it is set to false in the
\* transactional mode and to true in the other three, where neither commit
\* nor rollback is ever invoked.
C17_AutoCommitOncePerMode ==
  op.mode \in ExecModes
    => /\ CountCalls(op.log, "setAutoCommit") <= 1
       /\ \A k \in 1..Len(op.log) :
            op.log[k].call = "setAutoCommit"
              => /\ k = 2
                 /\ op.log[1].call = "getConnection" /\ op.log[1].ok
                 /\ op.log[k].arg = (IF op.mode = Tx THEN "false" ELSE "true")
       /\ \A k \in 1..Len(op.log) :
            op.log[k].call \in PrepareCalls
              => k = 3 /\ op.log[2].call = "setAutoCommit" /\ op.log[2].ok
       /\ (op.connection /\ op.pc # "setAutoCommit")
            => CountCalls(op.log, "setAutoCommit") = 1
       /\ op.mode # Tx
            => CountCalls(op.log, "commit") = 0 /\ CountCalls(op.log, "rollback") = 0

C17_Witness ==
  /\ Finished /\ op.mode = Tx /\ op.statement
  /\ op.log[2].call = "setAutoCommit" /\ op.log[2].arg = "false"
\* C18: when an execution mode or connect is over, its promise is settled:
\* resolved on the path where nothing threw, rejected on the path where a
\* step threw, never left pending under any combination of failing driver
\* calls; and a promise that is settled keeps its settlement for the rest of
\* the operation.
C18_SettledExactlyOnce ==
  /\ []((op.mode \in ExecModes \cup {"connect"} /\ op.pc = "done")
          => \/ /\ op.promise.state = "resolved"
                /\ op.caught = "" /\ op.uncaught = ""
             \/ /\ op.promise.state = "rejected"
                /\ op.caught # ""
                /\ op.promise.err \in {op.caught, op.uncaught})
  /\ [][(op.mode \in ExecModes /\ op'.mode = op.mode /\ nOps' = nOps
           /\ op.promise.state # "pending")
          => op'.promise = op.promise]_vars

C18_Witness ==
  /\ Finished /\ op.mode = Tx
  /\ Threw("executeUpdate") /\ Threw("rollback") /\ Threw("connection.close")
  /\ op.promise.state = "rejected"
\* C19: operations never interleave their driver calls (an operation starts
\* only when the previous one has run to its end), and at every point at most
\* one connection is held by this layer.
C19_OneConnectionAtATime ==
  /\ [](leased <= 1)
  /\ [][nOps' = nOps + 1 => op.pc \in {"idle", "done"}]_vars
ConnectionCalls == {"setAutoCommit", "prepareStatement", "commit", "rollback",
                    "connection.close"}

====
